---- MODULE Spec2Model ----
(***************************************************************************)
(* A model of BuildAgentBase (src/src/agents/common/build-agent.ts): the   *)
(* variable and input accessors, the tool cache, the process executor and  *)
(* the PATH mutation of the build agent.                                   *)
(*                                                                         *)
(* Strings are sequences of one-character strings, so that trimming, case  *)
(* conversion, splitting and concatenation are computed as the code        *)
(* computes them.  JavaScript's undefined and null are the model values    *)
(* Undefined and Null.                                                     *)
(***************************************************************************)
EXTENDS Integers, Sequences, FiniteSets, TLC

VARIABLES
    env,        \* process.env: variable name -> string, or Undefined when unset
    platform,   \* process.platform
    call,       \* accessor specification: the accessor call drawn for this run
    result,     \* accessor specification: what the call returned or threw
    fs,         \* directories on disk: path of each existing directory -> its files
    frame,      \* tool cache: the activation record of each caller
    lastDone,   \* tool cache: the last completed call and the one completed before it
    calls,      \* tool cache: number of calls started so far
    bins,       \* executables on disk: set of <<directory, tool>>
    added,      \* PATH: the directories passed to addPath, oldest first
    origPath,   \* PATH: the value of the PATH variable when the run started
    procRes     \* the last which or exec call since PATH last changed, and its outcome

vars == <<env, platform, call, result, fs, frame, lastDone, calls,
          bins, added, origPath, procRes>>

accVars   == <<call, result>>
cacheVars == <<fs, frame, lastDone, calls>>
procVars  == <<bins, added, origPath, procRes>>

\* undefined and null: one-element sequences no string can equal, since every
\* element of a string is a single character
Undefined == <<"#undefined">>
Null      == <<"#null">>

----------------------------------------------------------------------------
(* Strings *)

IsWhite(c) == c \in {" ", "\n"}

RECURSIVE TrimStart(_)
TrimStart(s) ==
    IF s # <<>> /\ IsWhite(Head(s)) THEN TrimStart(Tail(s)) ELSE s

RECURSIVE TrimEnd(_)
TrimEnd(s) ==
    IF s # <<>> /\ IsWhite(s[Len(s)]) THEN TrimEnd(SubSeq(s, 1, Len(s) - 1)) ELSE s

\* String.prototype.trim
Trim(s) == TrimEnd(TrimStart(s))

Lowers == <<"a", "b", "c", "d", "e", "f", "g", "h", "i", "j", "k", "l", "m",
            "n", "o", "p", "q", "r", "s", "t", "u", "v", "w", "x", "y", "z">>
Uppers == <<"A", "B", "C", "D", "E", "F", "G", "H", "I", "J", "K", "L", "M",
            "N", "O", "P", "Q", "R", "S", "T", "U", "V", "W", "X", "Y", "Z">>

IndexIn(c, t) == IF \E i \in 1..Len(t) : t[i] = c
                 THEN CHOOSE i \in 1..Len(t) : t[i] = c
                 ELSE 0

UpperChar(c) == IF IndexIn(c, Lowers) > 0 THEN Uppers[IndexIn(c, Lowers)] ELSE c
LowerChar(c) == IF IndexIn(c, Uppers) > 0 THEN Lowers[IndexIn(c, Uppers)] ELSE c

\* String.prototype.toUpperCase / toLowerCase
ToUpperCase(s) == [i \in 1..Len(s) |-> UpperChar(s[i])]
ToLowerCase(s) == [i \in 1..Len(s) |-> LowerChar(s[i])]

\* input.replace(/ /g, '_')
SpacesToUnderscore(s) == [i \in 1..Len(s) |-> IF s[i] = " " THEN "_" ELSE s[i]]

\* All strings over alphabet a of length at most n
RECURSIVE StringsUpTo(_, _)
StringsUpTo(a, n) ==
    IF n = 0 THEN {<<>>}
    ELSE LET shorter == StringsUpTo(a, n - 1)
         IN  shorter \cup {Append(s, c) : s \in shorter, c \in a}

----------------------------------------------------------------------------
(* process.env *)

\* process.env[name]: on win32 the lookup ignores the case of the name
EnvKey(name) == IF platform = "win32" THEN ToUpperCase(name) ELSE name

GetEnv(e, name) ==
    IF EnvKey(name) \in DOMAIN e THEN e[EnvKey(name)] ELSE Undefined

SetEnv(e, name, value) ==
    [k \in DOMAIN e \cup {EnvKey(name)} |->
        IF k = EnvKey(name) THEN value ELSE e[k]]

\* value || '' : undefined and the empty string are both falsy
OrEmpty(v) == IF v = Undefined THEN <<>> ELSE v

\* BuildAgentBase.getVariable
getVariable(e, name) == Trim(Trim(OrEmpty(GetEnv(e, name))))

----------------------------------------------------------------------------
(* Variable and input accessors *)

Return(v) == [kind |-> "return", value |-> v]
Throw(m, a) == [kind |-> "throw", message |-> m, arg |-> a]
NoResult == [kind |-> "none"]

\* the optional parameter `required`: true, false, or omitted (undefined)
Truthy(required) == required = "true"

InputPrefix == <<"I", "N", "P", "U", "T", "_">>

\* input.replace(/ /g, '_').toUpperCase()
InputProp(input) == ToUpperCase(SpacesToUnderscore(input))

\* getInput reading the variable without trimming it
getInput_Untrimmed(e, input, required) ==
    LET inputProp == InputProp(input)
        val == OrEmpty(GetEnv(e, InputPrefix \o inputProp))
    IN  IF Truthy(required) /\ val = <<>>
        THEN Throw("Input required and not supplied", inputProp)
        ELSE Return(val)

\* BuildAgentBase.getInput
getInput(e, input, required) ==
    LET inputProp == InputProp(input)
        val == getVariable(e, InputPrefix \o inputProp)
    IN  IF Truthy(required) /\ val = <<>>
        THEN Throw("Input required and not supplied", inputProp)
        ELSE Return(Trim(val))

StrTrue  == <<"t", "r", "u", "e">>
StrFalse == <<"f", "a", "l", "s", "e">>

\* getBooleanInput comparing without toLowerCase
getBooleanInput_CaseSensitive(e, input, required) ==
    LET r == getInput(e, input, required)
    IN  IF r.kind = "throw" THEN r
        ELSE Return((IF r.value = <<>> THEN StrFalse ELSE r.value) = StrTrue)

\* BuildAgentBase.getBooleanInput
getBooleanInput(e, input, required) ==
    LET r == getInput(e, input, required)
    IN  IF r.kind = "throw" THEN r
        ELSE Return(ToLowerCase(IF r.value = <<>> THEN StrFalse ELSE r.value) = StrTrue)

Digits == {"0", "1", "2", "3", "4", "5", "6", "7", "8", "9"}

\* [a-zA-Z_] and [a-zA-Z0-9_]
IsNameStart(c) == IndexIn(c, Lowers) > 0 \/ IndexIn(c, Uppers) > 0 \/ c = "_"
IsNameChar(c)  == IsNameStart(c) \/ c \in Digits

\* the index after the longest run of name characters starting at i (greedy *)
RECURSIVE NameEnd(_, _)
NameEnd(s, i) ==
    IF i <= Len(s) /\ IsNameChar(s[i]) THEN NameEnd(s, i + 1) ELSE i

\* the replacer callback: process.env[name.toUpperCase()], '' when undefined
Replacement(e, name) ==
    LET value == GetEnv(e, ToUpperCase(name))
    IN  IF value # Undefined THEN value ELSE <<>>

\* pattern.replace(/\$([a-zA-Z_][a-zA-Z0-9_]*|{([a-zA-Z_][a-zA-Z0-9_]*)})/g, ...)
\* scanning from index i; the replacement text is not scanned again
RECURSIVE ReplaceFrom(_, _, _)
ReplaceFrom(e, s, i) ==
    IF i > Len(s) THEN <<>>
    ELSE IF s[i] = "$" /\ i + 1 <= Len(s) /\ IsNameStart(s[i + 1])
    THEN LET j == NameEnd(s, i + 1)
         IN  Replacement(e, SubSeq(s, i + 1, j - 1)) \o ReplaceFrom(e, s, j)
    ELSE IF /\ s[i] = "$" /\ i + 2 <= Len(s) /\ s[i + 1] = "{"
            /\ IsNameStart(s[i + 2])
            /\ NameEnd(s, i + 2) <= Len(s)
            /\ s[NameEnd(s, i + 2)] = "}"
    THEN LET j == NameEnd(s, i + 2)
         IN  Replacement(e, SubSeq(s, i + 2, j - 1)) \o ReplaceFrom(e, s, j + 1)
    ELSE <<s[i]>> \o ReplaceFrom(e, s, i + 1)

\* BuildAgentBase.getExpandedString
getExpandedString(e, pattern) == Return(ReplaceFrom(e, pattern, 1))

----------------------------------------------------------------------------
(* The accessor specification: Init draws the environment and one accessor *)
(* call, and the action of that accessor applies it.                       *)

MaxPatLen == 5

InputKeys == {<<"k">>, <<"a", " ", "b">>}
InputNames == {InputPrefix \o <<"K">>, InputPrefix \o <<"A", "_", "B">>}
InputValues ==
    {Undefined, <<>>, <<" ">>, <<"\n", " ">>,
     StrTrue, <<" ", "T", "R", "U", "E", " ">>, <<"T", "r", "u", "e">>,
     StrFalse, <<"t", "r", "u", "e", "x">>, <<" ", "v", " ", "w", " ">>, <<"1">>}
Requireds == {"true", "false", "omitted"}

PatternChars == {"$", "{", "}", "a", "1"}
ExpandEnvs ==
    {[n \in {<<"A">>, <<"A", "1">>, <<"a">>} |->
        IF n = <<"A">> THEN a ELSE IF n = <<"a">> THEN l ELSE a1] :
        a \in {Undefined, <<"$", "a">>}, a1 \in {Undefined, <<"v">>},
        l \in {Undefined, <<"l">>}}

Callers == {1, 2}

IdleFrame ==
    [pc |-> "idle", op |-> "none", sourceDir |-> <<>>, tool |-> <<>>,
     version |-> <<>>, destPath |-> <<>>, copied |-> {}, result |-> NoResult]

NoCall ==
    [op |-> "none", sourceDir |-> <<>>, tool |-> <<>>, version |-> <<>>,
     destPath |-> <<>>, copied |-> {}, result |-> NoResult,
     prevOp |-> "none", prevDestPath |-> <<>>, prevCopied |-> {},
     prevResult |-> NoResult]

InitOther ==
    /\ fs = <<>>
    /\ frame = [c \in Callers |-> IdleFrame]
    /\ lastDone = NoCall
    /\ calls = 0
    /\ bins = {}
    /\ added = <<>>
    /\ origPath = Undefined
    /\ procRes = NoResult

InitAcc ==
    /\ platform \in {"linux", "win32"}
    /\ result = NoResult
    /\ \/ /\ env \in [InputNames -> InputValues]
          /\ call \in [op : {"getInput", "getBooleanInput"}, input : InputKeys,
                       required : Requireds]
       \/ /\ env \in ExpandEnvs
          /\ platform = "win32" => env[<<"a">>] = Undefined
          /\ call \in [op : {"getExpandedString"},
                       pattern : StringsUpTo(PatternChars, MaxPatLen)]
    /\ InitOther

DoGetInput ==
    /\ call.op = "getInput" /\ result = NoResult
    /\ result' = getInput(env, call.input, call.required)
    /\ UNCHANGED <<env, platform, call, cacheVars, procVars>>

DoGetBooleanInput ==
    /\ call.op = "getBooleanInput" /\ result = NoResult
    /\ result' = getBooleanInput(env, call.input, call.required)
    /\ UNCHANGED <<env, platform, call, cacheVars, procVars>>

DoGetExpandedString ==
    /\ call.op = "getExpandedString" /\ result = NoResult
    /\ result' = getExpandedString(env, call.pattern)
    /\ UNCHANGED <<env, platform, call, cacheVars, procVars>>

NextAcc == DoGetInput \/ DoGetBooleanInput \/ DoGetExpandedString

SpecAcc == InitAcc /\ [][NextAcc]_vars

----------------------------------------------------------------------------
(* Claims about the accessors (SpecAcc) *)

\* the environment value stored under INPUT_<key, spaces to '_', uppercased>
StoredInput == GetEnv(env, InputPrefix \o InputProp(call.input))

\* unset, empty or made of whitespace only
Blank(v) == v = Undefined \/ \A i \in 1..Len(v) : IsWhite(v[i])

MissingRequiredInput(key) == Throw("Input required and not supplied", InputProp(key))

\* C5: getInput with required = true throws the missing-required-input error
\* naming the transformed key when the stored value is unset, empty or
\* whitespace-only, and returns exactly the trimmed value when it is not; with
\* required false or omitted it never throws and returns the trimmed value,
\* the empty string when unset.
C5_GetInputRequired ==
    (call.op = "getInput" /\ result # NoResult) =>
        IF call.required = "true"
        THEN /\ Blank(StoredInput) => result = MissingRequiredInput(call.input)
             /\ ~Blank(StoredInput) => result = Return(Trim(StoredInput))
        ELSE /\ result.kind = "return"
             /\ result.value = Trim(OrEmpty(StoredInput))
             /\ StoredInput = Undefined => result.value = <<>>

\* a required input whose key holds a space and whose value is whitespace only
\* has been read, and the read threw
C5_Witness ==
    /\ call.op = "getInput" /\ call.required = "true"
    /\ call.input = <<"a", " ", "b">>
    /\ StoredInput # Undefined /\ StoredInput # <<>> /\ Blank(StoredInput)
    /\ result.kind = "throw"

\* the trimmed value spells "true" in any mix of cases
SpellsTrue(v) ==
    LET t == Trim(OrEmpty(v))
    IN  /\ Len(t) = 4
        /\ t[1] \in {"t", "T"} /\ t[2] \in {"r", "R"}
        /\ t[3] \in {"u", "U"} /\ t[4] \in {"e", "E"}

\* C9 as stated: getBooleanInput returns true iff the trimmed value equals
\* "true" case-insensitively, and returns false for every other value,
\* an empty or unset input included, whatever `required` is.
C9_Original ==
    (call.op = "getBooleanInput" /\ result # NoResult) =>
        /\ result.kind = "return"
        /\ result.value = SpellsTrue(StoredInput)

\* C9 amended: when required is true and the value is unset, empty or
\* whitespace-only, getBooleanInput throws the missing-required-input error of
\* getInput; in every other case it returns true iff the trimmed value equals
\* "true" case-insensitively, and false otherwise.
C9_GetBooleanInput ==
    (call.op = "getBooleanInput" /\ result # NoResult) =>
        IF call.required = "true" /\ Blank(StoredInput)
        THEN result = MissingRequiredInput(call.input)
        ELSE /\ result.kind = "return"
             /\ result.value = SpellsTrue(StoredInput)

\* a padded, upper-case TRUE has been read as true
C9_Witness ==
    /\ call.op = "getBooleanInput"
    /\ StoredInput = <<" ", "T", "R", "U", "E", " ">>
    /\ result = Return(TRUE)

IsName(s) == s # <<>> /\ IsNameStart(s[1]) /\ \A i \in 1..Len(s) : IsNameChar(s[i])

\* C8's reading of a pattern from index i on: `${...}` up to the next `}` is a
\* reference when the braces hold a name and a malformed reference (replaced
\* by the empty string) when they do not; `$NAME` is a reference; a reference
\* becomes the value stored under the uppercased name, the empty string when
\* unset; any other character stays.
RECURSIVE ClaimedFrom(_, _, _)
ClaimedFrom(e, s, i) ==
    IF i > Len(s) THEN <<>>
    ELSE IF /\ s[i] = "$" /\ i + 1 <= Len(s) /\ s[i + 1] = "{"
            /\ \E k \in (i + 2)..Len(s) : s[k] = "}"
    THEN LET k == CHOOSE k \in (i + 2)..Len(s) :
                    s[k] = "}" /\ \A m \in (i + 2)..(k - 1) : s[m] # "}"
             body == SubSeq(s, i + 2, k - 1)
         IN  (IF IsName(body) THEN OrEmpty(GetEnv(e, ToUpperCase(body))) ELSE <<>>)
                \o ClaimedFrom(e, s, k + 1)
    ELSE IF s[i] = "$" /\ i + 1 <= Len(s) /\ IsNameStart(s[i + 1])
    THEN LET k == CHOOSE k \in (i + 1)..Len(s) :
                    /\ IsName(SubSeq(s, i + 1, k))
                    /\ k < Len(s) => ~IsNameChar(s[k + 1])
         IN  OrEmpty(GetEnv(e, ToUpperCase(SubSeq(s, i + 1, k))))
                \o ClaimedFrom(e, s, k + 1)
    ELSE <<s[i]>> \o ClaimedFrom(e, s, i + 1)

\* C8: getExpandedString never throws and replaces, in one pass, every $NAME
\* and ${NAME} by the value stored under the uppercased NAME, an unset
\* reference and a malformed reference such as ${} by the empty string, and
\* leaves all other text unchanged.
C8_Original ==
    (call.op = "getExpandedString" /\ result # NoResult) =>
        result = Return(ClaimedFrom(env, call.pattern, 1))

----------------------------------------------------------------------------
(* Paths: node:path on a POSIX host.  The model passes no ".." segments.   *)

Sep == "/"

\* the segments of s between separators, empty segments included
RECURSIVE SplitOn(_, _)
SplitOn(s, d) ==
    IF \E i \in 1..Len(s) : s[i] = d
    THEN LET i == CHOOSE i \in 1..Len(s) : s[i] = d /\ \A j \in 1..(i - 1) : s[j] # d
         IN  <<SubSeq(s, 1, i - 1)>> \o SplitOn(SubSeq(s, i + 1, Len(s)), d)
    ELSE <<s>>

RECURSIVE JoinWith(_, _)
JoinWith(segs, d) ==
    IF segs = <<>> THEN <<>>
    ELSE IF Len(segs) = 1 THEN segs[1]
    ELSE segs[1] \o <<d>> \o JoinWith(Tail(segs), d)

\* empty and "." segments carry nothing
RECURSIVE DropDots(_)
DropDots(segs) ==
    IF segs = <<>> THEN <<>>
    ELSE IF Head(segs) \in {<<>>, <<".">>} THEN DropDots(Tail(segs))
    ELSE <<Head(segs)>> \o DropDots(Tail(segs))

IsAbsolute(s) == s # <<>> /\ s[1] = Sep

\* path.normalize: '' becomes '.'
PathNormalize(s) ==
    LET body == JoinWith(DropDots(SplitOn(s, Sep)), Sep)
    IN  IF IsAbsolute(s) THEN <<Sep>> \o body
        ELSE IF body = <<>> THEN <<".">> ELSE body

\* process.cwd()
Cwd == <<"/", "w">>

\* path.resolve: relative paths are taken from the working directory
PathResolve(s) ==
    LET full == IF IsAbsolute(s) THEN s ELSE Cwd \o <<Sep>> \o s
    IN  <<Sep>> \o JoinWith(DropDots(SplitOn(full, Sep)), Sep)

\* path.join: the parts joined by the separator, then normalized
PathJoin3(a, b, c) == PathNormalize(a \o <<Sep>> \o b \o <<Sep>> \o c)

\* BuildAgentBase.getVariableAsPath
getVariableAsPath(e, name) == PathResolve(PathNormalize(getVariable(e, name)))

\* the abstract member cacheDirVariable, as a concrete host sets it
cacheDirVariable == <<"T", "C">>

\* BuildAgentBase.cacheDir
cacheDir(e) == getVariableAsPath(e, cacheDirVariable)

----------------------------------------------------------------------------
(* semver.clean *)

IsNumericId(s) ==
    /\ s # <<>>
    /\ \A i \in 1..Len(s) : s[i] \in Digits
    /\ Len(s) > 1 => s[1] # "0"

\* version.trim().replace(/^[=v]+/, '')
RECURSIVE StripEqV(_)
StripEqV(s) == IF s # <<>> /\ Head(s) \in {"=", "v"} THEN StripEqV(Tail(s)) ELSE s

\* semver.clean for versions without prerelease or build parts: the version
\* without padding and leading = or v, null when that is not MAJOR.MINOR.PATCH
SemverClean(v) ==
    LET t == StripEqV(Trim(v))
        parts == SplitOn(t, ".")
    IN  IF Len(parts) = 3 /\ \A i \in 1..3 : IsNumericId(parts[i]) THEN t ELSE Null

\* semver.clean(version) || version
CleanOrRaw(v) == IF SemverClean(v) \in {Null, <<>>} THEN v ELSE SemverClean(v)

----------------------------------------------------------------------------
(* The file system: fs maps each existing directory to the files directly  *)
(* in it, a file being <<name, data>>.  Each call below is one step.       *)

\* q is p or lies under p
Under(q, p) ==
    /\ Len(q) >= Len(p) /\ SubSeq(q, 1, Len(p)) = p
    /\ Len(q) > Len(p) => q[Len(p) + 1] = Sep

\* the directories from the root down to p
Ancestors(p) ==
    {SubSeq(p, 1, i) : i \in {j \in 1..Len(p) : j = Len(p) \/ p[j + 1] = Sep}} \ {<<>>}

\* BuildAgentBase.directoryExists, when neither of its two awaits is interleaved
DirectoryExists(f, p) == p \in DOMAIN f

\* a removal that leaves the directory in place
RemoveDirectory_Keep(f, p) == f

\* fs.rm(dir, {recursive: true, force: true}): a missing target is no error
RemoveDirectory(f, p) == [q \in {d \in DOMAIN f : ~Under(d, p)} |-> f[q]]

\* fs.mkdir(dir, {recursive: true}): existing directories are kept as they are
MakeDirectory(f, p) ==
    [q \in DOMAIN f \cup Ancestors(p) |-> IF q \in DOMAIN f THEN f[q] ELSE {}]

FileNames(files) == {x[1] : x \in files}

\* fs.cp(src, dest, {recursive: true, force: true}) of a flat directory: dest is
\* created when missing, files of the same name are overwritten, others stay
CopyDirectory(f, src, dest) ==
    LET g == MakeDirectory(f, dest)
    IN  [g EXCEPT ![dest] = {x \in g[dest] : x[1] \notin FileNames(f[src])} \cup f[src]]

----------------------------------------------------------------------------
(* The tool cache *)

\* the number of cache calls a run makes
MaxCalls == 3

RequiredParameter(name) == Throw("is a required parameter", name)

\* the argument checks of cacheToolDirectory with version checked before tool
ValidateCacheArgs_VersionFirst(sourceDir, tool, version) ==
    IF version = <<>> THEN RequiredParameter("version")
    ELSE IF tool = <<>> THEN RequiredParameter("tool")
    ELSE IF sourceDir = <<>> THEN RequiredParameter("sourceDir")
    ELSE NoResult

\* the argument checks of cacheToolDirectory
ValidateCacheArgs(sourceDir, tool, version) ==
    IF tool = <<>> THEN RequiredParameter("tool")
    ELSE IF version = <<>> THEN RequiredParameter("version")
    ELSE IF sourceDir = <<>> THEN RequiredParameter("sourceDir")
    ELSE NoResult

\* the argument checks of findLocalTool
ValidateFindArgs(toolName, versionSpec) ==
    IF toolName = <<>> THEN RequiredParameter("toolName")
    ELSE IF versionSpec = <<>> THEN RequiredParameter("versionSpec")
    ELSE NoResult

\* cacheToolDirectory: version = semver.clean(version) || version, then
\* destPath = path.join(cacheRoot, tool, version)
DestPath(cacheRoot, tool, version) == PathJoin3(cacheRoot, tool, CleanOrRaw(version))

\* findLocalTool joining the version as given, without semver.clean
ToolPath_Raw(cacheRoot, toolName, versionSpec) ==
    PathJoin3(cacheRoot, toolName, versionSpec)

\* findLocalTool: versionSpec = semver.clean(versionSpec) || versionSpec, then
\* toolPath = path.join(cacheRoot, toolName, versionSpec)
ToolPath(cacheRoot, toolName, versionSpec) ==
    PathJoin3(cacheRoot, toolName, CleanOrRaw(versionSpec))

Active(c) == frame[c].pc # "idle"

\* a caller may start a call when it has none in progress; an exclusive caller
\* (one that serializes its calls externally) also waits for every other call
MayCall(c, exclusive) ==
    /\ calls < MaxCalls
    /\ ~Active(c)
    /\ exclusive => \A d \in Callers : ~Active(d)

\* the call of caller c ends: its promise settles with fr.result
Settle(c, fr) ==
    /\ frame' = [frame EXCEPT ![c] = IdleFrame]
    /\ lastDone' =
         [op |-> fr.op, sourceDir |-> fr.sourceDir, tool |-> fr.tool,
          version |-> fr.version, destPath |-> fr.destPath, copied |-> fr.copied,
          result |-> fr.result,
          prevOp |-> lastDone.op, prevDestPath |-> lastDone.destPath,
          prevCopied |-> lastDone.copied, prevResult |-> lastDone.result]

NewFrame(op, sourceDir, tool, version) ==
    [IdleFrame EXCEPT !.op = op, !.sourceDir = sourceDir, !.tool = tool,
                      !.version = version]

\* cacheToolDirectory up to its first await: the argument checks, the cache
\* root, the destination path and the start of directoryExists
CallCacheToolDirectory(c, sourceDir, tool, version, exclusive) ==
    /\ MayCall(c, exclusive)
    /\ LET fr == NewFrame("cacheToolDirectory", sourceDir, tool, version)
           invalid == ValidateCacheArgs(sourceDir, tool, version)
           cacheRoot == cacheDir(env)
       IN  IF invalid # NoResult
           THEN Settle(c, [fr EXCEPT !.result = invalid])
           ELSE IF cacheRoot = <<>>
           THEN Settle(c, [fr EXCEPT !.result = Return(<<>>)])
           ELSE /\ frame' = [frame EXCEPT ![c] =
                       [fr EXCEPT !.pc = "access",
                                  !.destPath = DestPath(cacheRoot, tool, version)]]
                /\ UNCHANGED lastDone
    /\ calls' = calls + 1
    /\ UNCHANGED <<fs, env, platform, accVars, procVars>>

\* findLocalTool up to its first await
CallFindLocalTool(c, toolName, versionSpec, exclusive) ==
    /\ MayCall(c, exclusive)
    /\ LET fr == NewFrame("findLocalTool", <<>>, toolName, versionSpec)
           invalid == ValidateFindArgs(toolName, versionSpec)
           cacheRoot == cacheDir(env)
       IN  IF invalid # NoResult
           THEN Settle(c, [fr EXCEPT !.result = invalid])
           ELSE IF cacheRoot = <<>>
           THEN Settle(c, [fr EXCEPT !.result = Return(Null)])
           ELSE /\ frame' = [frame EXCEPT ![c] =
                       [fr EXCEPT !.pc = "access",
                                  !.destPath = ToolPath(cacheRoot, toolName, versionSpec)]]
                /\ UNCHANGED lastDone
    /\ calls' = calls + 1
    /\ UNCHANGED <<fs, env, platform, accVars, procVars>>

\* directoryExists has answered b: cacheToolDirectory goes on to remove or to
\* mkdir, findLocalTool returns the path or null
Answered(c, b) ==
    IF frame[c].op = "cacheToolDirectory"
    THEN /\ frame' = [frame EXCEPT ![c].pc = IF b THEN "remove" ELSE "mkdir"]
         /\ UNCHANGED lastDone
    ELSE Settle(c, [frame[c] EXCEPT
                       !.result = IF b THEN Return(frame[c].destPath) ELSE Return(Null)])

\* directoryExists: await fs.access(dir); a failure answers false
DirAccess(c) ==
    /\ frame[c].pc = "access"
    /\ IF DirectoryExists(fs, frame[c].destPath)
       THEN frame' = [frame EXCEPT ![c].pc = "stat"] /\ UNCHANGED lastDone
       ELSE Answered(c, FALSE)
    /\ UNCHANGED <<fs, calls, env, platform, accVars, procVars>>

\* directoryExists: (await fs.stat(dir)).isDirectory(); a failure answers false
DirStat(c) ==
    /\ frame[c].pc = "stat"
    /\ Answered(c, DirectoryExists(fs, frame[c].destPath))
    /\ UNCHANGED <<fs, calls, env, platform, accVars, procVars>>

\* await this.removeDirectory(destPath)
Remove(c) ==
    /\ frame[c].pc = "remove"
    /\ fs' = RemoveDirectory(fs, frame[c].destPath)
    /\ frame' = [frame EXCEPT ![c].pc = "mkdir"]
    /\ UNCHANGED <<lastDone, calls, env, platform, accVars, procVars>>

\* await fs.mkdir(destPath, {recursive: true})
Mkdir(c) ==
    /\ frame[c].pc = "mkdir"
    /\ fs' = MakeDirectory(fs, frame[c].destPath)
    /\ frame' = [frame EXCEPT ![c].pc = "copy"]
    /\ UNCHANGED <<lastDone, calls, env, platform, accVars, procVars>>

\* await fs.cp(sourceDir, destPath, ...) and the return; a missing source
\* makes fs.cp fail and the failure propagates to the caller
Copy(c) ==
    /\ frame[c].pc = "copy"
    /\ IF DirectoryExists(fs, frame[c].sourceDir)
       THEN /\ fs' = CopyDirectory(fs, frame[c].sourceDir, frame[c].destPath)
            /\ Settle(c, [frame[c] EXCEPT !.copied = fs[frame[c].sourceDir],
                                          !.result = Return(frame[c].destPath)])
       ELSE /\ fs' = fs
            /\ Settle(c, [frame[c] EXCEPT !.result = Throw("ENOENT", "cp")])
    /\ UNCHANGED <<calls, env, platform, accVars, procVars>>

----------------------------------------------------------------------------
(* The tool cache specifications: SpecCache lets the callers' calls        *)
(* overlap, SpecCacheSeq starts a call only when no other is in progress.  *)

Source1 == <<"/", "s">>
Source2 == <<"/", "r">>
MissingSource == <<"/", "m">>

Files1  == {<<"f", 1>>, <<"h", 1>>}
Files1b == {<<"f", 3>>}
Files2  == {<<"f", 2>>, <<"g", 2>>}

SourceDirs == {<<>>, Source1, Source2, MissingSource}
ToolNames  == {<<>>, <<"t">>}
Versions   == {<<>>, <<"v", "1", ".", "0", ".", "0">>, <<"x">>}
CacheDirValues == {Undefined, <<>>, <<" ">>, <<"/", "c">>, <<" ", "c">>}

InitCache ==
    /\ platform = "linux"
    /\ env \in [{cacheDirVariable} -> CacheDirValues]
    /\ fs = [p \in {Cwd, Source1, Source2} |->
                IF p = Source1 THEN Files1 ELSE IF p = Source2 THEN Files2 ELSE {}]
    /\ frame = [c \in Callers |-> IdleFrame]
    /\ lastDone = NoCall
    /\ calls = 0
    /\ call = [op |-> "none"]
    /\ result = NoResult
    /\ bins = {}
    /\ added = <<>>
    /\ origPath = Undefined
    /\ procRes = NoResult

\* the tool's build writes its source directory anew
RewriteSource ==
    /\ fs' = [fs EXCEPT ![Source1] = IF fs[Source1] = Files1 THEN Files1b ELSE Files1]
    /\ UNCHANGED <<frame, lastDone, calls, env, platform, accVars, procVars>>

CacheStep(c) == DirAccess(c) \/ DirStat(c) \/ Remove(c) \/ Mkdir(c) \/ Copy(c)

NextCache ==
    \/ \E c \in Callers, s \in SourceDirs, t \in ToolNames, v \in Versions :
          CallCacheToolDirectory(c, s, t, v, FALSE)
    \/ \E c \in Callers, t \in ToolNames, v \in Versions :
          CallFindLocalTool(c, t, v, FALSE)
    \/ \E c \in Callers : CacheStep(c)
    \/ RewriteSource

NextCacheSeq ==
    \/ \E s \in SourceDirs, t \in ToolNames, v \in Versions :
          CallCacheToolDirectory(1, s, t, v, TRUE)
    \/ \E t \in ToolNames, v \in Versions :
          CallFindLocalTool(1, t, v, TRUE)
    \/ \E c \in Callers : CacheStep(c)
    \/ RewriteSource

SpecCache == InitCache /\ [][NextCache]_vars

SpecCacheSeq == InitCache /\ [][NextCacheSeq]_vars

----------------------------------------------------------------------------
(* Claims about the tool cache *)

\* the cache-directory variable is set to something other than whitespace
CacheRootConfigured == ~Blank(GetEnv(env, cacheDirVariable))

Cached(d) == d.op = "cacheToolDirectory" /\ d.result.kind = "return"

NoCallActive == \A c \in Callers : ~Active(c)

\* C1: with a cache root configured, a findLocalTool(tool, version) that
\* completes next after a completed cacheToolDirectory(srcDir, tool, version)
\* returns the path cacheToolDirectory returned, never null, and the directory
\* at that path holds exactly the files srcDir held when it was copied.
C1_RoundTrip ==
    [][(/\ CacheRootConfigured
        /\ Cached(lastDone)
        /\ lastDone'.op = "findLocalTool"
        /\ lastDone'.tool = lastDone.tool
        /\ lastDone'.version = lastDone.version)
       => /\ lastDone'.result = lastDone.result
          /\ lastDone'.result.value # Null
          /\ lastDone'.result.value \in DOMAIN fs'
          /\ fs'[lastDone'.result.value] = lastDone.copied]_vars

\* a lookup has completed right after a completed caching of a version that
\* semver.clean rewrites, under a configured cache root, and found the entry
C1_Witness ==
    /\ CacheRootConfigured
    /\ lastDone.op = "findLocalTool"
    /\ lastDone.version = <<"v", "1", ".", "0", ".", "0">>
    /\ lastDone.prevOp = "cacheToolDirectory"
    /\ lastDone.prevResult = Return(lastDone.destPath)
    /\ lastDone.result = Return(lastDone.destPath)
    /\ lastDone.prevCopied # {}

\* C2: after sequential cacheToolDirectory calls for the same (tool, version)
\* the cache entry holds exactly the files of the last call's source
\* directory: nothing of an earlier call remains.
C2_Overwrite ==
    (NoCallActive /\ Cached(lastDone)) =>
        /\ lastDone.result.value = lastDone.destPath
        /\ lastDone.destPath \in DOMAIN fs
        /\ fs[lastDone.destPath] = lastDone.copied

\* two calls in a row have cached the same entry, the earlier one from a
\* source holding a file the later source lacks
C2_Witness ==
    /\ NoCallActive /\ Cached(lastDone)
    /\ lastDone.prevOp = "cacheToolDirectory"
    /\ lastDone.prevResult = Return(lastDone.destPath)
    /\ FileNames(lastDone.prevCopied) \ FileNames(lastDone.copied) # {}

\* C3: when two cacheToolDirectory calls for the same (tool, version) with
\* different source contents run concurrently, then after both complete the
\* entry holds exactly the files of the caller whose copy finished last.
C3_LastWriterWins ==
    (/\ NoCallActive /\ calls = 2
     /\ CacheRootConfigured
     /\ Cached(lastDone)
     /\ lastDone.prevOp = "cacheToolDirectory"
     /\ lastDone.prevResult = Return(lastDone.destPath)
     /\ lastDone.prevCopied # lastDone.copied)
    => fs[lastDone.destPath] = lastDone.copied

ValidCall(d) ==
    /\ d.op \in {"cacheToolDirectory", "findLocalTool"}
    /\ d.tool # <<>> /\ d.version # <<>>
    /\ d.op = "cacheToolDirectory" => d.sourceDir # <<>>

\* C4: with the cache-directory variable unset, empty or blank,
\* cacheToolDirectory with valid arguments returns the empty string and
\* findLocalTool with valid arguments returns null, and no directory is ever
\* removed, created or copied.
C4_NoCacheRoot ==
    ~CacheRootConfigured =>
        /\ DOMAIN fs = {Cwd, Source1, Source2}
        /\ (ValidCall(lastDone) /\ lastDone.op = "cacheToolDirectory")
              => lastDone.result = Return(<<>>)
        /\ (ValidCall(lastDone) /\ lastDone.op = "findLocalTool")
              => lastDone.result = Return(Null)

\* the error the argument checks owe a call, in the order tool, version,
\* sourceDir (toolName, versionSpec for findLocalTool)
OwedError(d) ==
    IF d.op = "cacheToolDirectory"
    THEN CASE d.tool = <<>> -> RequiredParameter("tool")
           [] d.tool # <<>> /\ d.version = <<>> -> RequiredParameter("version")
           [] OTHER -> RequiredParameter("sourceDir")
    ELSE CASE d.tool = <<>> -> RequiredParameter("toolName")
           [] OTHER -> RequiredParameter("versionSpec")

\* C10: a cacheToolDirectory or findLocalTool call with an empty argument
\* throws the required-parameter error naming the first missing argument in
\* the step that makes the call, and that step leaves every directory and its
\* contents as they were, whatever the cache root is.
C10_FailFast ==
    [][(/\ calls' = calls + 1
        /\ lastDone'.op \in {"cacheToolDirectory", "findLocalTool"}
        /\ ~ValidCall(lastDone')
        /\ frame' = frame)
       => /\ lastDone'.result = OwedError(lastDone')
          /\ fs' = fs]_vars

\* a call without a tool and without a version has failed while the cache
\* held an entry
C10_Witness ==
    /\ lastDone.op = "cacheToolDirectory"
    /\ lastDone.tool = <<>> /\ lastDone.version = <<>>
    /\ lastDone.result = RequiredParameter("tool")
    /\ lastDone.prevResult = Return(lastDone.prevDestPath)
    /\ lastDone.prevOp = "cacheToolDirectory"
    /\ lastDone.prevDestPath \in DOMAIN fs

----------------------------------------------------------------------------
(* PATH and the executable locator *)

\* path.delimiter
Delimiter == IF platform = "win32" THEN ";" ELSE ":"

\* the name addPath and the locator use for the PATH variable
PathName == IF platform = "win32" THEN <<"P", "a", "t", "h">> ELSE <<"P", "A", "T", "H">>

LiteralPath == <<"P", "a", "t", "h">>

\* string concatenation turns undefined into the text "undefined"
ToText(v) ==
    IF v = Undefined THEN <<"u", "n", "d", "e", "f", "i", "n", "e", "d">> ELSE v

\* addPath putting the directory after the previous value
addPath_Append(e, inputPath) ==
    LET newPath == ToText(GetEnv(e, PathName)) \o <<Delimiter>> \o inputPath
    IN  SetEnv(SetEnv(e, PathName, newPath), LiteralPath, newPath)

\* BuildAgentBase.addPath: the environment after the call
addPath(e, inputPath) ==
    LET newPath == inputPath \o <<Delimiter>> \o ToText(GetEnv(e, PathName))
    IN  SetEnv(SetEnv(e, PathName, newPath), LiteralPath, newPath)

\* lookPath: the first directory of PATH, in order, that holds the tool;
\* undefined when PATH is unset or no directory holds it
lookPath(e, b, tool) ==
    LET value == GetEnv(e, PathName)
        dirs == IF value = Undefined THEN <<>> ELSE SplitOn(value, Delimiter)
        hits == {i \in 1..Len(dirs) : <<dirs[i], tool>> \in b}
    IN  IF hits = {} THEN Undefined
        ELSE dirs[CHOOSE i \in hits : \A j \in hits : i <= j] \o <<Sep>> \o tool

\* BuildAgentBase.which
which(e, b, tool) ==
    LET toolPath == lookPath(e, b, tool)
    IN  IF toolPath \notin {Undefined, <<>>}
        THEN Return(PathResolve(toolPath))
        ELSE Throw("Unable to locate executable file", tool)

----------------------------------------------------------------------------
(* The process executor *)

\* JavaScript values of the result: numbers, strings, null, undefined, errors
JsNumber(n) == [type |-> "number", num |-> n]
JsString(t) == [type |-> "string", text |-> t]
JsNull      == [type |-> "null"]
JsUndefined == [type |-> "undefined"]
JsError(name, code) == [type |-> "error", name |-> name, code |-> code]

MaxExitCode == 2
Captured == {<<>>, <<"o">>}

\* what the child process can do
ChildOutcomes ==
    [how : {"exit"}, code : 0..MaxExitCode, stdout : Captured, stderr : Captured]
    \cup [how : {"signal", "spawn", "maxBuffer"}, code : {0},
          stdout : Captured, stderr : Captured]

\* util.promisify(child_process.exec): the promise resolves with the streams
\* when the child exits with 0 and rejects with an error carrying code, stdout
\* and stderr otherwise; the code is the exit code, null after a signal, and
\* the error's name after a spawn failure or an overrun of maxBuffer
ExecPromise(o) ==
    CASE o.how = "exit" /\ o.code = 0 ->
            [settled |-> "resolved", error |-> JsNull,
             code |-> JsUndefined, stdout |-> o.stdout, stderr |-> o.stderr]
      [] o.how = "exit" /\ o.code # 0 ->
            [settled |-> "rejected", error |-> JsError("Error", JsNumber(o.code)),
             code |-> JsNumber(o.code), stdout |-> o.stdout, stderr |-> o.stderr]
      [] o.how = "signal" ->
            [settled |-> "rejected", error |-> JsError("Error", JsNull),
             code |-> JsNull, stdout |-> o.stdout, stderr |-> o.stderr]
      [] o.how = "spawn" ->
            [settled |-> "rejected", error |-> JsError("Error", JsString("ENOENT")),
             code |-> JsString("ENOENT"), stdout |-> o.stdout, stderr |-> o.stderr]
      [] o.how = "maxBuffer" ->
            [settled |-> "rejected",
             error |-> JsError("RangeError", JsString("ERR_CHILD_PROCESS_STDIO_MAXBUFFER")),
             code |-> JsString("ERR_CHILD_PROCESS_STDIO_MAXBUFFER"),
             stdout |-> o.stdout, stderr |-> o.stderr]

\* exec without the catch: a rejection escapes to the caller
exec_Rethrow(o) ==
    LET p == ExecPromise(o)
    IN  IF p.settled = "resolved"
        THEN Return([code |-> JsNumber(0), error |-> JsNull,
                     stderr |-> p.stderr, stdout |-> p.stdout])
        ELSE Throw("Command failed", o.how)

\* BuildAgentBase.exec: the try returns code 0 and error null, the catch
\* returns the error and its code
exec(o) ==
    LET p == ExecPromise(o)
    IN  IF p.settled = "resolved"
        THEN Return([code |-> JsNumber(0), error |-> JsNull,
                     stderr |-> p.stderr, stdout |-> p.stdout])
        ELSE Return([code |-> p.code, error |-> p.error,
                     stderr |-> p.stderr, stdout |-> p.stdout])

----------------------------------------------------------------------------
(* The process specification: addPath, which and exec in any order *)

MaxAdds == 2

DirA == <<"/", "a">>
DirB == <<"/", "b">>
DirN == <<"/", "n">>
Dirs == {DirA, DirB, DirN}
Tool == <<"g">>
Tools == {Tool, <<"q">>}
OrigDirs == {<<>>, <<DirA>>, <<DirA, DirB>>}

InitProc ==
    /\ platform \in {"linux", "win32"}
    /\ origPath \in {Undefined} \cup {JoinWith(d, Delimiter) : d \in OrigDirs}
    /\ env = [n \in {EnvKey(PathName)} |-> origPath]
    /\ bins \in SUBSET (Dirs \X {Tool})
    /\ added = <<>>
    /\ procRes = [op |-> "none", arg |-> <<>>, outcome |-> NoResult]
    /\ call = [op |-> "none"]
    /\ result = NoResult
    /\ fs = <<>>
    /\ frame = [c \in Callers |-> IdleFrame]
    /\ lastDone = NoCall
    /\ calls = 0

AddPath(inputPath) ==
    /\ Len(added) < MaxAdds
    /\ env' = addPath(env, inputPath)
    /\ added' = Append(added, inputPath)
    /\ procRes' = [op |-> "none", arg |-> <<>>, outcome |-> NoResult]
    /\ UNCHANGED <<platform, bins, origPath, accVars, cacheVars>>

Which(tool) ==
    /\ procRes' = [op |-> "which", arg |-> tool, outcome |-> which(env, bins, tool)]
    /\ UNCHANGED <<env, platform, bins, added, origPath, accVars, cacheVars>>

Exec(o) ==
    /\ procRes' = [op |-> "exec", arg |-> o, outcome |-> exec(o)]
    /\ UNCHANGED <<env, platform, bins, added, origPath, accVars, cacheVars>>

NextProc ==
    \/ \E d \in Dirs : AddPath(d)
    \/ \E t \in Tools : Which(t)
    \/ \E o \in ChildOutcomes : Exec(o)

SpecProc == InitProc /\ [][NextProc]_vars

----------------------------------------------------------------------------
(* Claims about the process executor and PATH (SpecProc) *)

\* C6: exec never raises: whatever the child does, the call returns an
\* ExecResult in which error is null exactly when code is 0; when the child
\* succeeds code is 0, error is null and the streams are the captured ones;
\* when it fails error is the underlying failure and code is not 0.
C6_ExecNeverRaises ==
    procRes.op = "exec" =>
        LET o == procRes.arg
            r == procRes.outcome
            succeeded == o.how = "exit" /\ o.code = 0
        IN  /\ r.kind = "return"
            /\ (r.value.error = JsNull) <=> (r.value.code = JsNumber(0))
            /\ r.value.stdout = o.stdout /\ r.value.stderr = o.stderr
            /\ succeeded => r.value.code = JsNumber(0) /\ r.value.error = JsNull
            /\ ~succeeded => /\ r.value.error.type = "error"
                             /\ r.value.code # JsNumber(0)
                             /\ r.value.code = r.value.error.code
            /\ (o.how = "exit" /\ o.code # 0) => r.value.code = JsNumber(o.code)
            /\ o.how = "signal" => r.value.code = JsNull

\* a child killed by a signal has been reported with a null code and an error
C6_Witness ==
    /\ procRes.op = "exec"
    /\ procRes.arg.how = "signal"
    /\ procRes.outcome.kind = "return"
    /\ procRes.outcome.value.code = JsNull
    /\ procRes.outcome.value.error # JsNull

RECURSIVE Reverse(_)
Reverse(q) == IF q = <<>> THEN <<>> ELSE Reverse(Tail(q)) \o <<Head(q)>>

\* the directories holding the tool
Holders(tool) == {d \in Dirs : <<d, tool>> \in bins}

====
